---- MODULE Spec2Model ----
(***************************************************************************)
(* A model of the a2s client (rumblefrog/a2s-rs): the transport and        *)
(* reassembly engine A2SClient::send, the challenge exchange               *)
(* do_challenge_request and the query operations built on them.            *)
(* Datagrams are byte sequences (values 0..255); Rust's 0-based offsets    *)
(* are kept, the helpers below translate them to 1-based sequences.        *)
(***************************************************************************)
EXTENDS Integers, Sequences, FiniteSets, TLC

(***************************************************************************)
(* Bounds of the model.                                                    *)
(***************************************************************************)
\* how many datagrams the network delivers to the socket in one behaviour
MaxDatagrams == 3

(***************************************************************************)
(* Constants of the program.                                               *)
(***************************************************************************)
SINGLE_PACKET == -1
MULTI_PACKET == -2
OFS_HEADER == 0
OFS_SP_PAYLOAD == 4
OFS_MP_ID == 4
OFS_MP_SS_TOTAL == 8
OFS_MP_SS_NUMBER == 9
OFS_MP_SS_SIZE == 10
OFS_MP_SS_BZ2_SIZE == 12
OFS_MP_SS_BZ2_CRC == 16
OFS_MP_SS_PAYLOAD == OFS_MP_SS_BZ2_SIZE
OFS_MP_SS_PAYLOAD_BZ2 == OFS_MP_SS_BZ2_CRC + 4
\* the sanity bound on the declared number of fragments
MaxTotalPackets == 32
\* A2SClient::new: max_size
DefaultMaxSize == 1400
DefaultAppId == 0
\* the length test of a datagram received in the reassembly loop
MinLoopLen == 9
\* the byte 'A' that begins a challenge reply
ChallengeMarker == 65

PLAYER_REQUEST == <<255, 255, 255, 255, 85>>
RULES_REQUEST == <<255, 255, 255, 255, 86>>
INFO_REQUEST ==
  <<255, 255, 255, 255, 84, 83, 111, 117, 114, 99, 101, 32, 69, 110, 103, 105,
    110, 101, 32, 81, 117, 101, 114, 121, 0>>

(***************************************************************************)
(* Byte buffers.                                                           *)
(***************************************************************************)
Min(a, b) == IF a < b THEN a ELSE b

\* data.truncate(read) after recv into a buffer of cap bytes: the datagram's
\* first cap bytes, no padding
Truncate(d, cap) == SubSeq(d, 1, Min(Len(d), cap))

\* buf[off], 0-based; the caller has checked off < Len(buf)
At(buf, off) == buf[off + 1]

\* &buf[from..]; the caller has checked from <= Len(buf)
SliceFrom(buf, from) == SubSeq(buf, from + 1, Len(buf))

\* whether the reads buf[off] .. buf[off + n - 1] stay inside the buffer;
\* Rust aborts (panics) on an index outside it
InBounds(buf, off, n) == off + n <= Len(buf)

\* u16::from_le_bytes
U16(buf, off) == At(buf, off) + 256 * At(buf, off + 1)

\* i32::from_le_bytes, two's complement
I32(buf, off) ==
  LET b3 == At(buf, off + 3)
      hi == IF b3 >= 128 THEN b3 - 256 ELSE b3
  IN  At(buf, off) + 256 * At(buf, off + 1) + 65536 * At(buf, off + 2)
        + 16777216 * hi

\* u32::from_le_bytes, kept as two 16-bit halves (the value is hi * 2^16 + lo)
U32(buf, off) == [hi |-> U16(buf, off + 2), lo |-> U16(buf, off)]

\* write_i32::<LittleEndian>: the four bytes of a signed 32-bit value
LE32(v) ==
  LET lo31 == IF v < 0 THEN v + 2147483647 + 1 ELSE v
      b3 == (lo31 \div 16777216) + (IF v < 0 THEN 128 ELSE 0)
  IN  <<lo31 % 256, (lo31 \div 256) % 256, (lo31 \div 65536) % 256, b3>>

(***************************************************************************)
(* Results of a call: Ok(payload), Err(kind), or the abort of the thread   *)
(* by a panic (an index outside a buffer).                                 *)
(***************************************************************************)
Ok(p) == [kind |-> "Ok", err |-> "", payload |-> p]
Err(e) == [kind |-> "Err", err |-> e, payload |-> <<>>]
Panic == [kind |-> "Panic", err |-> "index out of bounds", payload |-> <<>>]
NoResult == [kind |-> "None", err |-> "", payload |-> <<>>]

(***************************************************************************)
(* Decompression and checksum.  bzip2 and CRC-32 are library code outside  *)
(* the repository; they are abstracted by a small codec with the same      *)
(* interface: a stream is valid when it starts with the magic "BZ" and it  *)
(* decodes to the bytes that follow; the checksum is the byte sum.         *)
(***************************************************************************)
BzMagic == <<66, 90>>

\* BzDecoder::new(aggregation).read_exact(&mut decompressed) with a buffer of
\* n bytes: the first n decoded bytes, or an I/O error when the stream is
\* invalid or decodes to fewer than n bytes
BzReadExact(stream, n) ==
  IF Len(stream) >= 2 /\ SubSeq(stream, 1, 2) = BzMagic /\ Len(stream) - 2 >= n
    THEN [ok |-> TRUE, out |-> SubSeq(stream, 3, n + 2)]
    ELSE [ok |-> FALSE, out |-> <<>>]

RECURSIVE ByteSum(_)
ByteSum(b) == IF b = <<>> THEN 0 ELSE (Head(b) + ByteSum(Tail(b))) % 65536

\* crc32::checksum_ieee, as a u32 in two halves
Checksum(b) == [hi |-> 0, lo |-> ByteSum(b)]

\* decompressed_size > (1024 * 1024), on a u32 in two halves: 2^20 = 16 * 2^16
ExceedsBz2Limit(size) == size.hi > 16 \/ (size.hi = 16 /\ size.lo > 0)

\* decompressed_size as usize, for a size within the limit
AsUsize(size) == size.hi * 65536 + size.lo

(***************************************************************************)
(* A2SClient::send after the query is transmitted: the first datagram, the *)
(* reassembly loop, and the aggregation.  Each step yields the result of   *)
(* the call (NoResult while it goes on), the state of the reassembly, the  *)
(* buffers it reserved (try_reserve) and whether decompression started.    *)
(***************************************************************************)
NoSend == [data |-> <<>>, id |-> 0, total |-> 0, ss |-> 0, packets |-> <<>>]

Step(res, st, reserved, bz) ==
  [res |-> res, st |-> st, reserved |-> reserved, bz |-> bz]

Reserve(what, n) == [what |-> what, n |-> n]

\* a variant of SinglePayload that forgets to skip the 4-byte header
SinglePayload_KeepHeader(data) == data

\* Ok(data[OFS_SP_PAYLOAD..].to_vec())
SinglePayload(data) == SliceFrom(data, OFS_SP_PAYLOAD)

\* the sanity check on the envelope of the first datagram
EnvelopeRejected(switching_size, total_packets, max_size) ==
  (switching_size > max_size) \/ (total_packets > MaxTotalPackets)

\* id as u32 & 0x80000000 != 0: the sign bit of the i32
IsCompressed(id) == id < 0

\* where the payload of the first datagram starts
FirstPayloadOffset == OFS_MP_SS_PAYLOAD + 4

\* where the payload of a datagram received in the loop starts
LoopPayloadOffset(id) ==
  IF ~IsCompressed(id) THEN OFS_MP_SS_PAYLOAD ELSE OFS_MP_SS_PAYLOAD_BZ2

\* if data.len() <= 9 { Err(Error::InvalidResponse)? }
TooShort(data) == Len(data) <= MinLoopLen

\* a variant of IdMismatch that never compares the ids
IdMismatch_Never(packet_id, id) == FALSE

\* if packet_id != id { return Err(Error::MismatchID) }
IdMismatch(packet_id, id) == packet_id # id

\* packets.sort_by_key(|p| p.number): a stable sort
RECURSIVE InsertByNumber(_, _)
InsertByNumber(p, sorted) ==
  IF sorted = <<>> THEN <<p>>
  ELSE IF Head(sorted).number <= p.number
         THEN <<Head(sorted)>> \o InsertByNumber(p, Tail(sorted))
         ELSE <<p>> \o sorted

RECURSIVE SortByNumber(_)
SortByNumber(ps) ==
  IF ps = <<>> THEN <<>>
  ELSE InsertByNumber(ps[Len(ps)], SortByNumber(SubSeq(ps, 1, Len(ps) - 1)))

\* for p in packets { aggregation.extend(p.payload) }
RECURSIVE Aggregate(_)
Aggregate(ps) ==
  IF ps = <<>> THEN <<>> ELSE Head(ps).payload \o Aggregate(Tail(ps))

\* the first datagram, received into a buffer of max_size bytes
FirstDatagram(dgram, max_size) ==
  LET data == Truncate(dgram, max_size) IN
  IF ~InBounds(data, OFS_HEADER, 4) THEN Step(Panic, NoSend, <<>>, FALSE)
  ELSE IF I32(data, OFS_HEADER) = SINGLE_PACKET
    THEN Step(Ok(SinglePayload(data)), NoSend, <<>>, FALSE)
  ELSE IF I32(data, OFS_HEADER) = MULTI_PACKET
    THEN IF ~InBounds(data, OFS_MP_SS_SIZE, 2)
           THEN \* id, total or switching size lies outside the datagram
                Step(Panic, NoSend, <<>>, FALSE)
           ELSE LET id == I32(data, OFS_MP_ID)
                    total_packets == At(data, OFS_MP_SS_TOTAL)
                    switching_size == U16(data, OFS_MP_SS_SIZE)
                    st == [data |-> data, id |-> id, total |-> total_packets,
                           ss |-> switching_size,
                           packets |-> <<[number |-> At(data, OFS_MP_SS_NUMBER),
                                          payload |-> SliceFrom(data, FirstPayloadOffset)]>>]
                IN  IF EnvelopeRejected(switching_size, total_packets, max_size)
                      THEN Step(Err("InvalidResponse"), NoSend, <<>>, FALSE)
                    ELSE IF FirstPayloadOffset > Len(data)
                      THEN Step(Panic, NoSend,
                                <<Reserve("packets", total_packets)>>, FALSE)
                    ELSE Step(NoResult, st,
                              <<Reserve("packets", total_packets)>>, FALSE)
  ELSE Step(Err("InvalidResponse"), NoSend, <<>>, FALSE)

\* after the loop: sort, concatenate, decompress and verify when compressed
Finish(st, max_size) ==
  LET aggregation == Aggregate(SortByNumber(st.packets))
      agg == Reserve("aggregation", st.total * max_size)
  IN  IF ~IsCompressed(st.id) THEN Step(Ok(aggregation), NoSend, <<agg>>, FALSE)
      ELSE IF ~InBounds(st.data, OFS_MP_SS_BZ2_CRC, 4)
        THEN Step(Panic, NoSend, <<agg>>, FALSE)
      ELSE LET decompressed_size == U32(st.data, OFS_MP_SS_BZ2_SIZE)
               checksum == U32(st.data, OFS_MP_SS_BZ2_CRC)
           IN  IF ExceedsBz2Limit(decompressed_size)
                 THEN Step(Err("InvalidBz2Size"), NoSend, <<agg>>, FALSE)
               ELSE LET n == AsUsize(decompressed_size)
                        dec == BzReadExact(aggregation, n)
                        rsv == <<agg, Reserve("decompressed", n)>>
                    IN  IF ~dec.ok THEN Step(Err("Io(Bz2)"), NoSend, rsv, TRUE)
                        ELSE IF Checksum(dec.out) # checksum
                          THEN Step(Err("CheckSumMismatch"), NoSend, rsv, TRUE)
                        ELSE Step(Ok(dec.out), NoSend, rsv, TRUE)

\* one pass of the loop: a datagram received into a buffer of switching_size
\* bytes
LoopDatagram(st, dgram, max_size) ==
  LET data == Truncate(dgram, st.ss)
      buf == <<Reserve("recv", st.ss)>>
  IN  IF TooShort(data) THEN Step(Err("InvalidResponse"), NoSend, buf, FALSE)
      ELSE IF IdMismatch(I32(data, OFS_MP_ID), st.id)
        THEN Step(Err("MismatchID"), NoSend, buf, FALSE)
      ELSE IF LoopPayloadOffset(st.id) > Len(data)
        THEN Step(Panic, NoSend, buf, FALSE)
      ELSE LET pushed ==
                 [st EXCEPT !.packets =
                    Append(@, [number |-> At(data, OFS_MP_SS_NUMBER),
                               payload |-> SliceFrom(data, LoopPayloadOffset(st.id))])]
           IN  IF Len(pushed.packets) = st.total
                 THEN LET f == Finish(pushed, max_size)
                      IN  Step(f.res, f.st, buf \o f.reserved, f.bz)
                 ELSE Step(NoResult, pushed, buf, FALSE)

(***************************************************************************)
(* The challenge exchange (do_challenge_request) and the info query.       *)
(***************************************************************************)
\* packet.set_position(5)
ChallengePos == 5

\* Cursor<Vec<u8>>::write at position pos: overwrites, and extends the vector
\* when the bytes reach past its end
WriteAt(packet, pos, bytes) ==
  SubSeq(packet, 1, pos) \o bytes
    \o SubSeq(packet, pos + Len(bytes) + 1, Len(packet))

\* packet.write_all(header); packet.write_i32::<LittleEndian>(-1)
FirstQuery(header) == WriteAt(header, Len(header), LE32(-1))

\* a variant of SecondQuery that forgets set_position(5): the cursor stands
\* after the first token and the write appends
SecondQuery_Append(packet, challenge) == packet \o LE32(challenge)

\* packet.set_position(5); packet.write_i32::<LittleEndian>(challenge)
SecondQuery(packet, challenge) == WriteAt(packet, ChallengePos, LE32(challenge))

\* a variant of NotChallenge that accepts any leading byte
NotChallenge_Never(header) == FALSE

\* header != b'A'
NotChallenge(header) == header # ChallengeMarker

\* the head of the first response as do_challenge_request reads it:
\* read_u8, the comparison with 'A', read_i32
ReadChallenge(data) ==
  IF ~InBounds(data, 0, 1) THEN [res |-> Err("Io(UnexpectedEof)"), challenge |-> 0]
  ELSE IF NotChallenge(At(data, 0))
    THEN [res |-> Err("InvalidResponse"), challenge |-> 0]
  ELSE IF ~InBounds(data, 1, 4)
    THEN [res |-> Err("Io(UnexpectedEof)"), challenge |-> 0]
  ELSE [res |-> NoResult, challenge |-> I32(data, 1)]

\* a variant of InfoSecondQuery that leaves the token out
InfoSecondQuery_NoToken(challenge) == INFO_REQUEST

\* the second query of info: INFO_REQUEST followed by the challenge
InfoSecondQuery(challenge) == WriteAt(INFO_REQUEST, Len(INFO_REQUEST), LE32(challenge))

BaseHeader(op) ==
  CASE op = "players" -> PLAYER_REQUEST
    [] op = "rules" -> RULES_REQUEST
    [] OTHER -> INFO_REQUEST

\* the first query of a call
InitialQuery(op) ==
  IF op = "info" THEN INFO_REQUEST ELSE FirstQuery(BaseHeader(op))

(***************************************************************************)
(* The decoders.  A read of the cursor yields the value read and the       *)
(* position after it, or the error of the read.  Strings are sequences of  *)
(* code points; f32 values are kept as their little-endian bytes, u32     *)
(* values as two and u64 values as four 16-bit parts.                      *)
(***************************************************************************)
ReplacementChar == 65533
TheShipAppId == 2400

Rd(v, pos) == [v |-> v, pos |-> pos, err |-> ""]
RdErr(e) == [v |-> 0, pos |-> 0, err |-> e]
Eof == "Io(UnexpectedEof)"

\* the byte of s at 1-based index i, 0 beyond the end
ByteOr0(s, i) == IF i <= Len(s) THEN s[i] ELSE 0

Utf8Width(b) ==
  IF b < 128 THEN 1
  ELSE IF b \in 194..223 THEN 2
  ELSE IF b \in 224..239 THEN 3
  ELSE IF b \in 240..244 THEN 4
  ELSE 0

Utf8Cont(b) == b \in 128..191

\* the second byte a 3- or 4-byte sequence led by f admits
Utf8Second(f, b) ==
  CASE f = 224 -> b \in 160..191
    [] f = 237 -> b \in 128..159
    [] f = 240 -> b \in 144..191
    [] f = 244 -> b \in 128..143
    [] OTHER -> Utf8Cont(b)

\* String::from_utf8_lossy on the bytes of s from index i: each well-formed
\* sequence is its code point, each maximal ill-formed part one U+FFFD
RECURSIVE Utf8Lossy(_, _)
Utf8Lossy(s, i) ==
  IF i > Len(s) THEN <<>>
  ELSE LET f == s[i]
           w == Utf8Width(f)
           b2 == ByteOr0(s, i + 1)
           b3 == ByteOr0(s, i + 2)
           b4 == ByteOr0(s, i + 3)
           bad(n) == <<ReplacementChar>> \o Utf8Lossy(s, i + n)
       IN  CASE w = 1 -> <<f>> \o Utf8Lossy(s, i + 1)
             [] w = 2 ->
                  IF ~Utf8Cont(b2) THEN bad(1)
                  ELSE <<(f - 192) * 64 + (b2 - 128)>> \o Utf8Lossy(s, i + 2)
             [] w = 3 ->
                  IF ~Utf8Second(f, b2) THEN bad(1)
                  ELSE IF ~Utf8Cont(b3) THEN bad(2)
                  ELSE <<(f - 224) * 4096 + (b2 - 128) * 64 + (b3 - 128)>>
                         \o Utf8Lossy(s, i + 3)
             [] w = 4 ->
                  IF ~Utf8Second(f, b2) THEN bad(1)
                  ELSE IF ~Utf8Cont(b3) THEN bad(2)
                  ELSE IF ~Utf8Cont(b4) THEN bad(3)
                  ELSE <<(f - 240) * 262144 + (b2 - 128) * 4096
                           + (b3 - 128) * 64 + (b4 - 128)>>
                         \o Utf8Lossy(s, i + 4)
             [] OTHER -> bad(1)

\* the position of the first zero byte of data at or after 0-based pos, the
\* length of data when there is none
RECURSIVE ZeroFrom(_, _)
ZeroFrom(data, pos) ==
  IF pos >= Len(data) \/ At(data, pos) = 0 THEN pos ELSE ZeroFrom(data, pos + 1)

\* read_cstring: the bytes up to the terminator or the end of the buffer
read_cstring(data, pos) ==
  LET z == ZeroFrom(data, pos)
  IN  Rd(Utf8Lossy(SubSeq(data, pos + 1, z), 1), Min(z + 1, Len(data)))

\* read_exact of n bytes at pos, which make the value v
ReadN(data, pos, n, v) ==
  IF InBounds(data, pos, n) THEN Rd(v, pos + n) ELSE RdErr(Eof)

Bytes4(data, pos) == SubSeq(data, pos + 1, pos + 4)
\* u64::from_le_bytes, kept as four 16-bit parts, the most significant first
U64(data, pos) ==
  <<U16(data, pos + 6), U16(data, pos + 4), U16(data, pos + 2), U16(data, pos)>>
NonZero(data, pos) == At(data, pos) # 0

\* a variant of ServerTypeOf that takes an unknown byte for a dedicated server
ServerTypeOf_Default(b) ==
  CASE b = 105 -> "NonDedicated" [] b = 112 -> "SourceTV" [] OTHER -> "Dedicated"

ServerTypeOf(b) ==
  CASE b = 100 -> "Dedicated" [] b = 105 -> "NonDedicated" [] b = 112 -> "SourceTV"
    [] OTHER -> "Invalid"

ServerOSOf(b) ==
  CASE b = 108 -> "Linux" [] b = 119 -> "Windows" [] b \in {109, 111} -> "Mac"
    [] OTHER -> "Invalid"

TheShipModeOf(data, pos) ==
  LET b == At(data, pos)
  IN  CASE b = 0 -> "Hunt" [] b = 1 -> "Elimination" [] b = 2 -> "Duel"
        [] b = 3 -> "Deathmatch" [] b = 4 -> "VIPTeam" [] b = 5 -> "TeamElimination"
        [] OTHER -> "Unknown"

\* one read of the cursor, by the kind of the field
ReadField(data, pos, kind) ==
  CASE kind = "u8" -> ReadN(data, pos, 1, At(data, pos))
    [] kind = "bool" -> ReadN(data, pos, 1, NonZero(data, pos))
    [] kind = "u16" -> ReadN(data, pos, 2, U16(data, pos))
    [] kind = "i32" -> ReadN(data, pos, 4, I32(data, pos))
    [] kind = "u32" -> ReadN(data, pos, 4, U32(data, pos))
    [] kind = "f32" -> ReadN(data, pos, 4, Bytes4(data, pos))
    [] kind = "u64" -> ReadN(data, pos, 8, U64(data, pos))
    [] kind = "mode" -> ReadN(data, pos, 1, TheShipModeOf(data, pos))
    [] kind = "cstring" -> read_cstring(data, pos)
    [] kind = "server_type" ->
         IF ~InBounds(data, pos, 1) THEN RdErr(Eof)
         ELSE IF ServerTypeOf(At(data, pos)) = "Invalid"
           THEN RdErr("Other(Invalid server type)")
           ELSE Rd(ServerTypeOf(At(data, pos)), pos + 1)
    [] kind = "server_os" ->
         IF ~InBounds(data, pos, 1) THEN RdErr(Eof)
         ELSE IF ServerOSOf(At(data, pos)) = "Invalid"
           THEN RdErr("Other(Invalid environment)")
           ELSE Rd(ServerOSOf(At(data, pos)), pos + 1)

Field(name, kind) == [name |-> name, kind |-> kind]

\* the record vals with the new field name set to v
With(vals, name, v) == vals @@ (name :> v)

\* the element of the singleton S; The({e(r) : r \in {x}}) is e of the
\* value of x
The(S) == CHOOSE x \in S : TRUE

\* the reads of the fields in order, each `?': the first error ends them
RECURSIVE ReadFields(_, _, _, _)
ReadFields(data, pos, fields, vals) ==
  IF fields = <<>> THEN Rd(vals, pos)
  ELSE The({ IF r.err # "" THEN r
             ELSE ReadFields(data, r.pos, Tail(fields),
                             With(vals, Head(fields).name, r.v)) :
             r \in {ReadField(data, pos, Head(fields).kind)} })

\* count times the reads of fields, collected in a sequence
RECURSIVE ReadEntries(_, _, _, _, _)
ReadEntries(data, pos, fields, count, acc) ==
  IF count = 0 THEN Rd(acc, pos)
  ELSE The({ IF r.err # "" THEN r
             ELSE ReadEntries(data, r.pos, fields, count - 1, Append(acc, r.v)) :
             r \in {ReadFields(data, pos, fields, <<>>)} })

\* a decoded value, or the error of the decoder
Decoded(v) == [kind |-> "Ok", err |-> "", value |-> v]
DecodeErr(e) == [kind |-> "Err", err |-> e, value |-> <<>>]
Undecoded == [kind |-> "None", err |-> "", value |-> <<>>]
OfRead(r) == The({ IF x.err # "" THEN DecodeErr(x.err) ELSE Decoded(x.v) : x \in {r} })

\* a variant of RuleFields that reads the value before the name
RuleFields_ValueFirst == <<Field("value", "cstring"), Field("name", "cstring")>>

RuleFields == <<Field("name", "cstring"), Field("value", "cstring")>>

\* Rule::from_cursor
RuleFromCursor(data) ==
  LET h == ReadField(data, 0, "u8")
      count == ReadField(data, h.pos, "u16")
  IN  IF h.err # "" THEN DecodeErr(h.err)
      ELSE IF h.v # 69 THEN DecodeErr("InvalidResponse")
      ELSE IF count.err # "" THEN DecodeErr(count.err)
      ELSE OfRead(ReadEntries(data, count.pos, RuleFields, count.v, <<>>))

PlayerFields(app_id) ==
  <<Field("index", "u8"), Field("name", "cstring"), Field("score", "i32"),
    Field("duration", "f32")>>
  \o (IF app_id = TheShipAppId
        THEN <<Field("deaths", "u32"), Field("money", "u32")>> ELSE <<>>)

\* a variant of PlayerFromCursor that does not look at the leading byte
PlayerFromCursor_AnyKind(data, app_id) ==
  LET h == ReadField(data, 0, "u8")
      count == ReadField(data, h.pos, "u8")
  IN  IF h.err # "" THEN DecodeErr(h.err)
      ELSE IF count.err # "" THEN DecodeErr(count.err)
      ELSE OfRead(ReadEntries(data, count.pos, PlayerFields(app_id), count.v, <<>>))

\* Player::from_cursor; the_ship is Some exactly when deaths and money are
\* fields of the player
PlayerFromCursor(data, app_id) ==
  LET h == ReadField(data, 0, "u8")
      count == ReadField(data, h.pos, "u8")
  IN  IF h.err # "" THEN DecodeErr(h.err)
      ELSE IF h.v # 68 THEN DecodeErr("InvalidResponse")
      ELSE IF count.err # "" THEN DecodeErr(count.err)
      ELSE OfRead(ReadEntries(data, count.pos, PlayerFields(app_id), count.v, <<>>))

InfoHead ==
  <<Field("protocol", "u8"), Field("name", "cstring"), Field("map", "cstring"),
    Field("folder", "cstring"), Field("game", "cstring"), Field("app_id", "u16"),
    Field("players", "u8"), Field("max_players", "u8"), Field("bots", "u8"),
    Field("server_type", "server_type"), Field("server_os", "server_os"),
    Field("visibility", "bool"), Field("vac", "bool")>>

\* a variant of InfoShip that never reads the block of The Ship
InfoShip_Never(app_id) == <<Field("version", "cstring")>>

InfoShip(app_id) ==
  (IF app_id = TheShipAppId
     THEN <<Field("mode", "mode"), Field("witnesses", "u8"), Field("duration", "u8")>>
     ELSE <<>>)
  \o <<Field("version", "cstring")>>

\* whether edf has the bit of mask (a power of two)
HasFlag(edf, mask) == (edf \div mask) % 2 = 1

\* a variant of InfoExtra that reads source_tv before keywords
InfoExtra_SourceTvFirst(edf) ==
  (IF HasFlag(edf, 128) THEN <<Field("port", "u16")>> ELSE <<>>)
  \o (IF HasFlag(edf, 16) THEN <<Field("steam_id", "u64")>> ELSE <<>>)
  \o (IF HasFlag(edf, 64)
        THEN <<Field("source_tv_port", "u16"), Field("source_tv_name", "cstring")>>
        ELSE <<>>)
  \o (IF HasFlag(edf, 32) THEN <<Field("keywords", "cstring")>> ELSE <<>>)
  \o (IF HasFlag(edf, 1) THEN <<Field("game_id", "u64")>> ELSE <<>>)

\* a variant of InfoExtra that reads game_id before keywords
InfoExtra_GameIdFirst(edf) ==
  (IF HasFlag(edf, 128) THEN <<Field("port", "u16")>> ELSE <<>>)
  \o (IF HasFlag(edf, 16) THEN <<Field("steam_id", "u64")>> ELSE <<>>)
  \o (IF HasFlag(edf, 1) THEN <<Field("game_id", "u64")>> ELSE <<>>)
  \o (IF HasFlag(edf, 32) THEN <<Field("keywords", "cstring")>> ELSE <<>>)
  \o (IF HasFlag(edf, 64)
        THEN <<Field("source_tv_port", "u16"), Field("source_tv_name", "cstring")>>
        ELSE <<>>)

InfoExtra(edf) ==
  (IF HasFlag(edf, 128) THEN <<Field("port", "u16")>> ELSE <<>>)
  \o (IF HasFlag(edf, 16) THEN <<Field("steam_id", "u64")>> ELSE <<>>)
  \o (IF HasFlag(edf, 32) THEN <<Field("keywords", "cstring")>> ELSE <<>>)
  \o (IF HasFlag(edf, 1) THEN <<Field("game_id", "u64")>> ELSE <<>>)
  \o (IF HasFlag(edf, 64)
        THEN <<Field("source_tv_port", "u16"), Field("source_tv_name", "cstring")>>
        ELSE <<>>)

\* Info::from_cursor; an optional part is Some exactly when its fields are
\* fields of the value
\* a variant of ReadEdf that requires the flags byte
ReadEdf_Required(data, pos) == ReadField(data, pos, "u8")

\* the read of edf: a read that fails at the end of the buffer is edf 0, any
\* other failure of the read is returned
ReadEdf(data, pos) ==
  LET r == ReadField(data, pos, "u8")
  IN  IF r.err = "" THEN r
      ELSE IF r.err # Eof THEN r
      ELSE Rd(0, pos)

\* the reads after version, given the reads ship up to it
InfoTail(data, ship) ==
  IF ship.err # "" THEN ship
  ELSE The({ IF e.err # "" THEN e
             ELSE ReadFields(data, e.pos, InfoExtra(e.v), With(ship.v, "edf", e.v)) :
             e \in {ReadEdf(data, ship.pos)} })

\* the reads after vac, given the reads head up to it
InfoBody(data, head) ==
  IF head.err # "" THEN head
  ELSE The({ InfoTail(data, ship) :
             ship \in {ReadFields(data, head.pos, InfoShip(head.v.app_id), head.v)} })

InfoFromCursor(data) ==
  LET h == ReadField(data, 0, "u8")
  IN  IF h.err # "" THEN DecodeErr(h.err)
      ELSE IF h.v # 73 THEN DecodeErr("InvalidResponse")
      ELSE OfRead(The({ InfoBody(data, head) :
                        head \in {ReadFields(data, h.pos, InfoHead, <<>>)} }))

\* the decoder the call applies to the payload of its exchange
Decode(op, data, app_id) ==
  CASE op = "players" -> PlayerFromCursor(data, app_id)
    [] op = "rules" -> RuleFromCursor(data)
    [] OTHER -> InfoFromCursor(data)

(***************************************************************************)
(* The encoders.                                                           *)
(***************************************************************************)
\* the UTF-8 bytes of a code point
Utf8Encode(cp) ==
  IF cp < 128 THEN <<cp>>
  ELSE IF cp < 2048 THEN <<192 + (cp \div 64), 128 + (cp % 64)>>
  ELSE IF cp < 65536
    THEN <<224 + (cp \div 4096), 128 + ((cp \div 64) % 64), 128 + (cp % 64)>>
  ELSE <<240 + (cp \div 262144), 128 + ((cp \div 4096) % 64),
         128 + ((cp \div 64) % 64), 128 + (cp % 64)>>

\* String::as_bytes
RECURSIVE AsBytes(_)
AsBytes(str) ==
  IF str = <<>> THEN <<>> ELSE Utf8Encode(Head(str)) \o AsBytes(Tail(str))

\* bytes.extend(string.as_bytes()); bytes.push(0)
CString(str) == AsBytes(str) \o <<0>>

\* u16::to_le_bytes
LE16(v) == <<v % 256, v \div 256>>

\* u64::to_le_bytes of a value in four 16-bit parts
LE64(v) == LE16(v[4]) \o LE16(v[3]) \o LE16(v[2]) \o LE16(v[1])

\* usize::to_le_bytes of a length below 2^16, on a target whose usize has
\* width bytes
LEUsize(n, width) == LE16(n) \o [i \in 1..(width - 2) |-> 0]

\* Rule::to_bytes
RuleToBytes(rule) == CString(rule.name) \o CString(rule.value)

RECURSIVE RulesBytes(_)
RulesBytes(rules) ==
  IF rules = <<>> THEN <<>> ELSE RuleToBytes(Head(rules)) \o RulesBytes(Tail(rules))

\* Rule::vec_to_bytes
RuleVecToBytes(rules, width) ==
  <<255, 255, 255, 255, 69>> \o LEUsize(Len(rules), width) \o RulesBytes(rules)

\* self.server_type as u8
ServerTypeByte(t) ==
  CASE t = "Dedicated" -> 100 [] t = "NonDedicated" -> 105 [] t = "SourceTV" -> 112

\* self.server_os as u8
ServerOSByte(os) ==
  CASE os = "Linux" -> 108 [] os = "Windows" -> 119 [] os = "Mac" -> 109

\* the_ship.mode as u8
TheShipModeByte(m) ==
  CASE m = "Hunt" -> 0 [] m = "Elimination" -> 1 [] m = "Duel" -> 2
    [] m = "Deathmatch" -> 3 [] m = "VIPTeam" -> 4 [] m = "TeamElimination" -> 5
    [] m = "Unknown" -> 255

BoolByte(b) == IF b THEN 1 ELSE 0

\* whether the optional field f of the record is Some
IsSome(v, f) == f \in DOMAIN v

\* Info::to_bytes
InfoToBytes(v) ==
  <<255, 255, 255, 255, 73>> \o <<v.protocol>>
  \o CString(v.name) \o CString(v.map) \o CString(v.folder) \o CString(v.game)
  \o LE16(v.app_id) \o <<v.players, v.max_players, v.bots>>
  \o <<ServerTypeByte(v.server_type), ServerOSByte(v.server_os)>>
  \o <<BoolByte(v.visibility), BoolByte(v.vac)>>
  \o (IF IsSome(v, "mode")
        THEN <<TheShipModeByte(v.mode), v.witnesses, v.duration>> ELSE <<>>)
  \o CString(v.version)
  \o (IF v.edf # 0 THEN <<v.edf>> ELSE <<>>)
  \o (IF IsSome(v, "port") THEN LE16(v.port) ELSE <<>>)
  \o (IF IsSome(v, "steam_id") THEN LE64(v.steam_id) ELSE <<>>)
  \o (IF IsSome(v, "keywords") THEN CString(v.keywords) ELSE <<>>)
  \o (IF IsSome(v, "game_id") THEN LE64(v.game_id) ELSE <<>>)
  \o (IF IsSome(v, "source_tv_port")
        THEN LE16(v.source_tv_port) \o CString(v.source_tv_name) ELSE <<>>)

(***************************************************************************)
(* State.                                                                  *)
(***************************************************************************)
VARIABLES
  max_size,   \* A2SClient.max_size
  app_id,     \* A2SClient.app_id
  socket,     \* datagrams queued at the client's socket, oldest first
  sent,       \* the queries transmitted so far: [from, bytes]
  delivered,  \* number of datagrams the network has delivered
  served,     \* number of transmitted queries the server has answered
  tasks,      \* the calls in progress, one per task
  codec       \* a value or payload handed to an encoder or a decoder

vars == <<max_size, app_id, socket, sent, delivered, served, tasks, codec>>

Ops == {"info", "players", "rules"}

\* addresses of servers; AnyServer is a sender that no query went to
DefaultServer == "server1"
OtherServer == "server2"
AnyServer == "unknown"

\* a codec input: a value to encode (src "value") or a payload to decode
\* (src "payload", a prefix of the payload full); width is the width of usize
CodecInput(src, op, value, bytes, full, width) ==
  [stage |-> src, src |-> src, op |-> op, value |-> value, bytes |-> bytes,
   full |-> full, width |-> width, out |-> Undecoded]

NoCodec == CodecInput("none", "info", <<>>, <<>>, <<>>, 8)

\* a call that has not transmitted yet.  rx, sendRes, reserved and bz record
\* what the call did: the datagrams it received, the result of each send,
\* the buffers it reserved and the rounds that started a decompression
NewTask(op) ==
  [op |-> op, pc |-> "call", round |-> 1, query |-> InitialQuery(op),
   st |-> NoSend, exchange |-> NoResult, result |-> Undecoded,
   rx |-> <<>>, sendRes |-> <<>>, reserved |-> <<>>, bz |-> {},
   addr |-> DefaultServer, variant |-> "sync"]

\* a call addressed to the server addr
NewTaskTo(op, addr) == [NewTask(op) EXCEPT !.addr = addr]

\* a call of the cooperatively scheduled build (feature "async")
NewAsyncTask(op) == [NewTask(op) EXCEPT !.variant = "async"]

\* the error of a recv that gets no datagram in time: the blocking build
\* returns the I/O error of the socket's read timeout, future_timeout! of
\* the async build returns Error::ErrTimeout
TimeoutError(variant) ==
  IF variant = "async" THEN Err("ErrTimeout") ELSE Err("Io(TimedOut)")

\* the caller of send, resumed with the result res of the send of this round
AfterSend(tk, res) ==
  LET t1 == [tk EXCEPT !.sendRes = Append(@, res), !.st = NoSend]
      fail(r) == [t1 EXCEPT !.pc = "done", !.exchange = r,
                            !.result = [kind |-> r.kind, err |-> r.err, value |-> <<>>]]
      again(q) == [t1 EXCEPT !.pc = "call", !.round = 2, !.query = q]
      final(data) == [t1 EXCEPT !.pc = "done", !.exchange = Ok(data),
                                !.result = Decode(tk.op, data, app_id)]
  IN  IF res.kind # "Ok" THEN fail(res)
      ELSE IF tk.round = 2 THEN final(res.payload)
      ELSE IF tk.op = "info"
        THEN IF ~InBounds(res.payload, 0, 1) THEN fail(Err("Io(UnexpectedEof)"))
             ELSE IF At(res.payload, 0) = ChallengeMarker
               THEN IF ~InBounds(res.payload, 1, 4)
                      THEN fail(Err("Io(UnexpectedEof)"))
                      ELSE again(InfoSecondQuery(I32(res.payload, 1)))
             ELSE final(res.payload)
      ELSE LET c == ReadChallenge(res.payload)
           IN  IF c.res.kind # "None" THEN fail(c.res)
               ELSE again(SecondQuery(tk.query, c.challenge))

\* the call after a step s of send on datagram d
ApplyStep(tk, d, s) ==
  LET t1 == [tk EXCEPT !.rx = Append(@, [round |-> tk.round, bytes |-> d.bytes,
                                          replyTo |-> d.replyTo,
                                          sender |-> d.sender]),
                       !.reserved = @ \o [i \in 1..Len(s.reserved) |->
                                        [round |-> tk.round, what |-> s.reserved[i].what,
                                         n |-> s.reserved[i].n]],
                       !.bz = IF s.bz THEN @ \cup {tk.round} ELSE @]
  IN  IF s.res.kind = "None" THEN [t1 EXCEPT !.pc = "loop", !.st = s.st]
      ELSE AfterSend(t1, s.res)

(***************************************************************************)
(* The client's steps.                                                     *)
(***************************************************************************)
\* a variant of Transmit that sends the query a second time
Transmit_Twice(t) ==
  /\ tasks[t].pc = "call"
  /\ sent' = sent \o <<[from |-> t, to |-> tasks[t].addr, bytes |-> tasks[t].query],
                        [from |-> t, to |-> tasks[t].addr, bytes |-> tasks[t].query]>>
  /\ tasks' = [tasks EXCEPT ![t].pc = "recv"]
  /\ UNCHANGED <<codec, max_size, app_id, socket, delivered, served>>

\* self.socket.send_to(payload, addr)
Transmit(t) ==
  /\ tasks[t].pc = "call"
  /\ sent' = Append(sent, [from |-> t, to |-> tasks[t].addr,
                         bytes |-> tasks[t].query])
  /\ tasks' = [tasks EXCEPT ![t].pc = "recv"]
  /\ UNCHANGED <<codec, max_size, app_id, socket, delivered, served>>

\* the first recv of send returns a datagram
RecvFirst(t) ==
  /\ tasks[t].pc = "recv"
  /\ socket # <<>>
  /\ tasks' = [tasks EXCEPT ![t] =
       ApplyStep(@, Head(socket), FirstDatagram(Head(socket).bytes, max_size))]
  /\ socket' = Tail(socket)
  /\ UNCHANGED <<codec, max_size, app_id, sent, delivered, served>>

\* a recv of the reassembly loop returns a datagram
RecvNext(t) ==
  /\ tasks[t].pc = "loop"
  /\ socket # <<>>
  /\ tasks' = [tasks EXCEPT ![t] =
       ApplyStep(@, Head(socket),
                 LoopDatagram(tasks[t].st, Head(socket).bytes, max_size))]
  /\ socket' = Tail(socket)
  /\ UNCHANGED <<codec, max_size, app_id, sent, delivered, served>>

\* a recv finds no datagram within the read timeout
Timeout(t) ==
  /\ tasks[t].pc \in {"recv", "loop"}
  /\ socket = <<>>
  /\ tasks' = [tasks EXCEPT ![t] = AfterSend(@, TimeoutError(tasks[t].variant))]
  /\ UNCHANGED <<codec, max_size, app_id, socket, sent, delivered, served>>

\* A2SClient::max_size(size): takes &mut self, so no call is in progress
SetMaxSize(size) ==
  /\ \A t \in DOMAIN tasks : tasks[t].pc = "call" /\ tasks[t].round = 1
  /\ max_size # size
  /\ max_size' = size
  /\ UNCHANGED <<codec, app_id, socket, sent, delivered, served, tasks>>

\* A2SClient::app_id(app_id): takes &mut self, so no call is in progress
SetAppId(id) ==
  /\ \A t \in DOMAIN tasks : tasks[t].pc = "call" /\ tasks[t].round = 1
  /\ app_id # id
  /\ app_id' = id
  /\ UNCHANGED <<codec, max_size, socket, sent, delivered, served, tasks>>

(***************************************************************************)
(* Datagrams the network may deliver.                                      *)
(***************************************************************************)
HdrSingle == <<255, 255, 255, 255>>
HdrMulti == <<254, 255, 255, 255>>
Id7 == <<7, 0, 0, 0>>
Id8 == <<8, 0, 0, 0>>
\* id 7 with the high bit set: a compressed response
IdZ == <<7, 0, 0, 128>>
\* switching size 1248
SwOk == <<224, 4>>
\* switching size 1401, above the default max_size
SwBig == <<121, 5>>

\* switching size 8, shorter than a fragment's envelope
SwTiny == <<8, 0>>

SP(payload) == HdrSingle \o payload
MP(id, total, number, sw, rest) == HdrMulti \o id \o <<total, number>> \o sw \o rest

\* a rules payload of 20 bytes: 0x45, count 2, ("sv","80"), ("mp_time","30")
RulesLo == <<69, 2, 0, 115, 118, 0, 56, 48, 0, 109>>
RulesHi == <<112, 95, 116, 105, 109, 101, 0, 51, 48, 0>>
PlayersNone == <<68, 0>>
InfoMin ==
  <<73, 17, 97, 0, 98, 0, 99, 0, 100, 0, 10, 0, 1, 8, 0, 100, 108, 0, 1, 49, 0>>

\* the rules response in two fragments, id 7: fragment 0 begins with the
\* single-packet header, as servers send it
F0 == MP(Id7, 2, 0, SwOk, HdrSingle \o RulesLo)
F1 == MP(Id7, 2, 1, SwOk, RulesHi)
\* a players response in three fragments, id 8
G0 == MP(Id8, 3, 0, SwOk, HdrSingle \o <<68>>)
G1 == MP(Id8, 3, 1, SwOk, <<0>>)
G2 == MP(Id8, 3, 2, SwOk, <<>>)
\* compressed responses in two fragments: fragment 0 carries the decompressed
\* size and the checksum
Z0Big == MP(IdZ, 2, 0, SwOk, <<1, 0, 16, 0>> \o <<9, 0, 0, 0>> \o <<66, 90, 4, 5>>)
Z0Ok == MP(IdZ, 2, 0, SwOk, <<2, 0, 0, 0>> \o <<9, 0, 0, 0>> \o <<66, 90, 4, 5>>)
Z1 == MP(IdZ, 2, 1, SwOk, <<3, 0, 0, 0, 5, 6, 7, 8, 9>>)
\* a compressed response of 10 bytes, checksum 20, in two fragments: the
\* stream is "BZ" 4 5 in fragment 0 and 2 0 0 0 9 0 0 0 in fragment 1
Y0 == MP(IdZ, 2, 0, SwOk, <<10, 0, 0, 0>> \o <<20, 0, 0, 0>> \o <<66, 90, 4, 5>>)
Y1 == MP(IdZ, 2, 1, SwOk, <<2, 0, 0, 0, 9, 0, 0, 0>>)

ChallengeToken == <<17, 34, 51, 196>>
ChallengeReply == SP(<<ChallengeMarker>> \o ChallengeToken)

WellFormed ==
  { SP(PlayersNone), SP(RulesLo \o RulesHi), SP(InfoMin), ChallengeReply,
    F0, F1, G0, G1, G2, Z0Big, Z0Ok, Z1, Y0, Y1 }

Malformed ==
  { <<>>, <<255, 255, 255>>, HdrSingle, SP(<<ChallengeMarker>>),
    <<0, 0, 0, 0, 0>>,
    SubSeq(F0, 1, 9), SubSeq(F0, 1, 12), SubSeq(F1, 1, 11), SubSeq(G1, 1, 9),
    HdrMulti \o Id7 \o <<33, 0>>,
    MP(Id7, 33, 0, SwOk, HdrSingle \o PlayersNone),
    MP(Id7, 2, 0, SwBig, HdrSingle \o PlayersNone),
    MP(Id7, 0, 0, SwOk, HdrSingle \o PlayersNone),
    MP(Id7, 1, 0, SwOk, HdrSingle \o PlayersNone),
    MP(Id7, 2, 0, SwTiny, HdrSingle \o PlayersNone),
    SubSeq(Z0Big, 1, 18), SubSeq(Z1, 1, 15) }

Datagrams == WellFormed \cup Malformed

\* the buffer size a caller may configure besides the default
SmallMaxSize == 8

\* the network hands the socket a datagram while a call waits for one
Deliver(d) ==
  /\ delivered < MaxDatagrams
  /\ socket = <<>>
  /\ \E t \in DOMAIN tasks : tasks[t].pc \in {"recv", "loop"}
  /\ socket' = <<[bytes |-> d, replyTo |-> 0, sender |-> AnyServer]>>
  /\ delivered' = delivered + 1
  /\ UNCHANGED <<codec, max_size, app_id, sent, served, tasks>>

(***************************************************************************)
(* One call at a time, against an arbitrary network.                       *)
(***************************************************************************)
Init ==
  /\ max_size = DefaultMaxSize
  /\ app_id = DefaultAppId
  /\ codec = NoCodec
  /\ socket = <<>>
  /\ sent = <<>>
  /\ delivered = 0
  /\ served = 0
  /\ \E op \in Ops : tasks = [t \in {1} |-> NewTask(op)]

Next ==
  \/ \E size \in {DefaultMaxSize, SmallMaxSize} : SetMaxSize(size)
  \/ \E id \in {DefaultAppId, TheShipAppId} : SetAppId(id)
  \/ \E t \in DOMAIN tasks : Transmit(t)
  \/ \E t \in DOMAIN tasks : RecvFirst(t)
  \/ \E t \in DOMAIN tasks : RecvNext(t)
  \/ \E t \in DOMAIN tasks : Timeout(t)
  \/ \E d \in Datagrams : Deliver(d)

Spec == Init /\ [][Next]_vars

(***************************************************************************)
(* Three queries issued concurrently on one client (try_join!), against a  *)
(* server that answers every query it receives, in order, over a network   *)
(* that neither loses nor reorders.                                        *)
(***************************************************************************)
\* the datagrams a correct server sends in reply to a query
ServerReplies(q) ==
  IF q = INFO_REQUEST THEN {<<SP(InfoMin)>>, <<ChallengeReply>>}
  ELSE IF q = WriteAt(INFO_REQUEST, Len(INFO_REQUEST), ChallengeToken)
    THEN {<<SP(InfoMin)>>}
  ELSE IF q = PLAYER_REQUEST \o ChallengeToken THEN {<<SP(PlayersNone)>>}
  ELSE IF q = RULES_REQUEST \o ChallengeToken THEN {<<F0, F1>>}
  ELSE {<<ChallengeReply>>}

\* the datagrams ds sent in reply to the query q: they come from the server
\* the query went to
Tag(ds, q) ==
  [i \in 1..Len(ds) |-> [bytes |-> ds[i], replyTo |-> q.from, sender |-> q.to]]

\* the server answers the oldest query it has not answered yet
ServerReply ==
  /\ served < Len(sent)
  /\ \E reply \in ServerReplies(sent[served + 1].bytes) :
       socket' = socket \o Tag(reply, sent[served + 1])
  /\ served' = served + 1
  /\ UNCHANGED <<codec, max_size, app_id, sent, delivered, tasks>>

InitConc ==
  /\ max_size = DefaultMaxSize
  /\ app_id = DefaultAppId
  /\ codec = NoCodec
  /\ socket = <<>>
  /\ sent = <<>>
  /\ delivered = 0
  /\ served = 0
  /\ tasks = <<NewAsyncTask("info"), NewAsyncTask("rules"), NewAsyncTask("players")>>

NextConc ==
  \/ \E t \in DOMAIN tasks : Transmit(t)
  \/ \E t \in DOMAIN tasks : RecvFirst(t)
  \/ \E t \in DOMAIN tasks : RecvNext(t)
  \/ \E t \in DOMAIN tasks : served = Len(sent) /\ Timeout(t)
  \/ ServerReply

SpecConc == InitConc /\ [][NextConc]_vars

(***************************************************************************)
(* One client with queries outstanding to two servers.                     *)
(***************************************************************************)
InitServers ==
  /\ max_size = DefaultMaxSize
  /\ app_id = DefaultAppId
  /\ codec = NoCodec
  /\ socket = <<>>
  /\ sent = <<>>
  /\ delivered = 0
  /\ served = 0
  /\ tasks = <<[NewTaskTo("rules", DefaultServer) EXCEPT !.variant = "async"],
               [NewTaskTo("info", OtherServer) EXCEPT !.variant = "async"]>>

SpecServers == InitServers /\ [][NextConc]_vars

(***************************************************************************)
(* The encoders and decoders on their own: a value is encoded, the         *)
(* transport removes the 4-byte header, the payload is decoded.            *)
(***************************************************************************)
MaxRules == 2
UsizeWidths == {4, 8}

\* strings: "", "a", "b", "sv", "80", and two with multi-byte characters
StrA == <<97>>
StrB == <<98>>
StrSv == <<115, 118>>
Str80 == <<56, 48>>
StrAccent == <<233>>
StrEuro == <<99, 8364, 128512>>

Rule(name, value) == [name |-> name, value |-> value]

RulePairs == {Rule(StrSv, Str80), Rule(StrAccent, <<>>), Rule(StrA, StrEuro)}

RuleLists ==
  UNION {[1..n -> RulePairs] : n \in 0..MaxRules}

\* "sv_gravity" = "800", "mp_timelimit" = "30"
SvGravity ==
  Rule(<<115, 118, 95, 103, 114, 97, 118, 105, 116, 121>>, <<56, 48, 48>>)
MpTimelimit ==
  Rule(<<109, 112, 95, 116, 105, 109, 101, 108, 105, 109, 105, 116>>, <<51, 48>>)

\* an Info record whose optional parts are as edf and app_id say
InfoValue(id, edf, name, os) ==
  [protocol |-> 17, name |-> name, map |-> <<100, 101>>, folder |-> <<>>,
   game |-> StrEuro, app_id |-> id, players |-> 1, max_players |-> 8,
   bots |-> 0, visibility |-> FALSE, vac |-> TRUE, version |-> <<49>>,
   server_type |-> (CASE os = "Linux" -> "Dedicated" [] os = "Mac" -> "SourceTV"
                      [] OTHER -> "NonDedicated"),
   server_os |-> os, edf |-> edf]
  @@ (IF id = TheShipAppId
        THEN [mode |-> (IF name = <<>> THEN "Unknown" ELSE "Duel"),
              witnesses |-> 2, duration |-> 200]
        ELSE <<>>)
  @@ (IF HasFlag(edf, 128) THEN [port |-> 27015] ELSE <<>>)
  @@ (IF HasFlag(edf, 16) THEN [steam_id |-> <<272, 1, 0, 65535>>] ELSE <<>>)
  @@ (IF HasFlag(edf, 32) THEN [keywords |-> StrAccent] ELSE <<>>)
  @@ (IF HasFlag(edf, 1) THEN [game_id |-> <<0, 0, 0, 2400>>] ELSE <<>>)
  @@ (IF HasFlag(edf, 64)
        THEN [source_tv_port |-> 27020, source_tv_name |-> <<116, 118>>]
        ELSE <<>>)

EdfValues == {0, 1, 2, 16, 32, 64, 96, 128, 241, 255}

InfoValues ==
  {InfoValue(id, edf, name, os) :
     id \in {10, TheShipAppId}, edf \in EdfValues, name \in {<<>>, StrA},
     os \in {"Linux", "Mac", "Windows"}}

\* Info records whose optional parts are not as edf says
InfoIrregular ==
  { [InfoValue(10, 0, StrA, "Linux") EXCEPT !.edf = 128],
    InfoValue(10, 0, StrA, "Linux") @@ [port |-> 27015] }

ValueInputs ==
  {CodecInput("value", "rules", l, <<>>, <<>>, w) : l \in RuleLists, w \in UsizeWidths}
  \cup {CodecInput("value", "info", v, <<>>, <<>>, 8) : v \in InfoValues \cup InfoIrregular}

\* the payload of a rules response as the protocol lays it out: 0x45, the
\* count in 16 bits, the pairs
RECURSIVE WirePairs(_)
WirePairs(l) ==
  IF l = <<>> THEN <<>>
  ELSE Head(l).name \o <<0>> \o Head(l).value \o <<0>> \o WirePairs(Tail(l))

WireRules(l) == <<69, Len(l) % 256, Len(l) \div 256>> \o WirePairs(l)

WireRuleLists ==
  { <<>>, <<SvGravity, MpTimelimit>>, <<MpTimelimit, SvGravity>>,
    <<Rule(StrSv, Str80)>>, <<Rule(StrA, <<>>), Rule(<<>>, StrB), Rule(StrA, StrB)>> }

\* a players payload with one player
PlayersOne == <<68, 1, 0, 97, 0, 254, 255, 255, 255, 0, 0, 128, 63>>
\* the info payload of The Ship
InfoShipMin ==
  <<73, 17, 97, 0, 98, 0, 99, 0, 100, 0, 96, 9, 1, 8, 0, 100, 108, 0, 1,
    7, 2, 3, 49, 0>>

\* bufs with the byte at 0-based offset off replaced by b
Patch(buf, off, b) == [buf EXCEPT ![off + 1] = b]

Prefixes(w) == {SubSeq(w, 1, k) : k \in 0..Len(w)}

PayloadInputs ==
  {CodecInput("payload", "rules", l, WireRules(l), WireRules(l), 8) : l \in WireRuleLists}
  \cup {CodecInput("payload", "rules", <<>>, p, RulesLo \o RulesHi, 8) :
          p \in Prefixes(RulesLo \o RulesHi)}
  \cup {CodecInput("payload", "info", <<>>, p, InfoMin, 8) : p \in Prefixes(InfoMin)}
  \cup {CodecInput("payload", "players", <<>>, p, PlayersOne, 8) :
          p \in Prefixes(PlayersOne)}
  \* info payloads, some with another byte at offset 15 (server type) or 16
  \* (OS)
  \cup {CodecInput("payload", "info", <<>>, p, p, 8) :
          p \in { InfoMin \o <<0>>, InfoShipMin, InfoShipMin \o <<0>>,
                  InfoMin \o <<128, 135, 105>>,
                  Patch(InfoMin, 15, 120), Patch(InfoMin, 15, 0),
                  Patch(InfoMin, 16, 120), Patch(InfoMin, 16, 111),
                  Patch(Patch(InfoMin, 15, 120), 16, 120),
                  SubSeq(Patch(InfoMin, 15, 120), 1, 16) }}
  \cup {CodecInput("payload", op, <<>>, p, p, 8) :
          op \in Ops,
          p \in {InfoMin, PlayersNone, RulesLo \o RulesHi, <<ChallengeMarker, 1, 2, 3, 4>>, <<0>>}}

\* Rule::vec_to_bytes, Info::to_bytes
Encode ==
  /\ codec.stage = "value"
  /\ codec' = [codec EXCEPT
       !.stage = "wire",
       !.bytes = IF codec.op = "rules" THEN RuleVecToBytes(codec.value, codec.width)
                 ELSE InfoToBytes(codec.value)]
  /\ UNCHANGED <<max_size, app_id, socket, sent, delivered, served, tasks>>

\* the transport hands the bytes after the single-packet header to the decoder
Strip ==
  /\ codec.stage = "wire"
  /\ codec' = [codec EXCEPT !.stage = "payload", !.bytes = SinglePayload(codec.bytes)]
  /\ UNCHANGED <<max_size, app_id, socket, sent, delivered, served, tasks>>

\* Rule::from_cursor, Player::from_cursor, Info::from_cursor
DecodePayload ==
  /\ codec.stage = "payload"
  /\ codec' = [codec EXCEPT !.stage = "decoded",
                            !.out = Decode(codec.op, codec.bytes, app_id)]
  /\ UNCHANGED <<max_size, app_id, socket, sent, delivered, served, tasks>>

InitCodec ==
  /\ max_size = DefaultMaxSize
  /\ app_id \in {DefaultAppId, TheShipAppId}
  /\ socket = <<>>
  /\ sent = <<>>
  /\ delivered = 0
  /\ served = 0
  /\ tasks = <<>>
  /\ codec \in ValueInputs \cup PayloadInputs

NextCodec == Encode \/ Strip \/ DecodePayload

SpecCodec == InitCodec /\ [][NextCodec]_vars

(***************************************************************************)
(* What a call has done, read from its record.                             *)
(***************************************************************************)
\* the datagrams the send of round r received, in the order of arrival
RxOf(tk, r) ==
  LET InRound(e) == e.round = r
      rx == SelectSeq(tk.rx, InRound)
  IN  [i \in 1..Len(rx) |-> rx[i].bytes]

\* the queries task t has transmitted, in order
SentBy(t) ==
  LET Mine(e) == e.from = t
      qs == SelectSeq(sent, Mine)
  IN  [i \in 1..Len(qs) |-> qs[i].bytes]

\* the bytes of datagram d that arrive in a receive buffer of cap bytes
Received(d, cap) == [i \in 1..(IF Len(d) < cap THEN Len(d) ELSE cap) |-> d[i]]

\* the completed sends: <<t, r>> for the send of round r of task t
Sends == {<<t, r>> \in (DOMAIN tasks) \X {1, 2} : r <= Len(tasks[t].sendRes)}

ResultOf(t, r) == tasks[t].sendRes[r]

\* datagram d has the fields of a fragment and they read: header -2 ...
IsFragment(d) == Len(d) >= 12 /\ SubSeq(d, 1, 4) = HdrMulti
FragId(d) == SubSeq(d, 5, 8)
FragTotal(d) == d[9]
FragNumber(d) == d[10]
FragSwitch(d) == d[11] + 256 * d[12]
FragCompressed(d) == d[8] >= 128

\* the payload fragment d carries: the bytes after the 12-byte envelope,
\* without the 4-byte single-packet header that begins fragment 0
FragPayload(d) ==
  IF FragNumber(d) = 0 THEN SubSeq(d, 17, Len(d)) ELSE SubSeq(d, 13, Len(d))

\* rx is an intact uncompressed response: n = total fragments (2 <= n <= 32)
\* of one id, ordinals 0..n-1 each exactly once, every datagram received whole
IntactUncompressed(rx) ==
  /\ Len(rx) >= 2
  /\ Len(rx) <= MaxTotalPackets
  /\ \A i \in 1..Len(rx) :
       /\ IsFragment(rx[i])
       /\ ~FragCompressed(rx[i])
       /\ FragId(rx[i]) = FragId(rx[1])
       /\ FragTotal(rx[i]) = Len(rx)
       /\ FragSwitch(rx[i]) <= max_size
       /\ Len(rx[i]) <= FragSwitch(rx[1])
       /\ Len(rx[i]) <= max_size
       /\ FragNumber(rx[i]) = 0 => Len(rx[i]) >= 16
  /\ \A k \in 0..(Len(rx) - 1) : \E i \in 1..Len(rx) : FragNumber(rx[i]) = k

\* the fragment of rx with ordinal k
FragmentNo(rx, k) == rx[CHOOSE i \in 1..Len(rx) : FragNumber(rx[i]) = k]

RECURSIVE PayloadFrom(_, _)
\* the payloads of the fragments k, k+1, ... of rx, concatenated
PayloadFrom(rx, k) ==
  IF k >= Len(rx) THEN <<>>
  ELSE FragPayload(FragmentNo(rx, k)) \o PayloadFrom(rx, k + 1)

\* the datagrams of rx in the order of their ordinals
InOrdinalOrder(rx) == [k \in 1..Len(rx) |-> FragmentNo(rx, k - 1)]

RECURSIVE RunLoop(_, _, _)
RunLoop(st, ds, cap) ==
  IF ds = <<>> THEN Err("Io(TimedOut)")
  ELSE LET s == LoopDatagram(st, Head(ds), cap)
       IN  IF s.res.kind = "None" THEN RunLoop(s.st, Tail(ds), cap) ELSE s.res

\* the result of a send that receives the datagrams ds, in this order, and
\* then no more
RunSend(ds, cap) ==
  IF ds = <<>> THEN Err("Io(TimedOut)")
  ELSE LET s == FirstDatagram(Head(ds), cap)
       IN  IF s.res.kind = "None" THEN RunLoop(s.st, Tail(ds), cap) ELSE s.res

(***************************************************************************)
(* The claims.                                                             *)
(***************************************************************************)

\* C1: for an uncompressed multi-packet response whose n fragments (2 <= n
\* <= 32) all arrive intact, the payload send returns is the same for every
\* order of arrival: it is the one returned when they arrive in ordinal order.
C1_OrderInvariant ==
  \A s \in Sends :
    LET rx == RxOf(tasks[s[1]], s[2])
    IN  IntactUncompressed(rx) =>
          ResultOf(s[1], s[2]) = RunSend(InOrdinalOrder(rx), max_size)

\* C2: for an uncompressed multi-packet response whose fragments all arrive,
\* send returns the fragments' payloads concatenated in increasing ordinal
\* order, no payload byte dropped, whatever the order of arrival (two
\* fragments of 10 payload bytes received as 1 then 0 give the 20 bytes).
C2_ConcatInOrdinalOrder ==
  \A s \in Sends :
    LET rx == RxOf(tasks[s[1]], s[2])
    IN  IntactUncompressed(rx) =>
          ResultOf(s[1], s[2]) = Ok(PayloadFrom(rx, 0))

\* C3: info, rules and players issued concurrently on one client, against
\* a server that answers each request correctly, all complete successfully,
\* and no query consumes a datagram sent in reply to another query.
C3_ConcurrentQueriesSucceed ==
  \A t \in DOMAIN tasks :
    /\ \A i \in 1..Len(tasks[t].rx) : tasks[t].rx[i].replyTo = t
    /\ tasks[t].pc = "done" => tasks[t].result.kind = "Ok"

\* a datagram received after the first, in the send s, carries an id other
\* than the id of the first datagram
ForeignAt(s, i) ==
  LET rx == RxOf(tasks[s[1]], s[2])
  IN  /\ i >= 2
      /\ i <= Len(rx)
      /\ Len(rx[i]) >= 8
      /\ FragId(rx[i]) # FragId(rx[1])

\* C4 as stated: if any datagram received after the first carries another
\* response id than the first, send returns MismatchID.
C4_MismatchAlwaysReported ==
  \A s \in Sends : \A i \in 1..MaxDatagrams :
    ForeignAt(s, i) => ResultOf(s[1], s[2]) = Err("MismatchID")

\* C4 amended: a datagram received after the first that carries another
\* response id ends the send without a payload: with MismatchID when more
\* than 9 bytes of it were received into the switch-size buffer, with
\* InvalidResponse when 9 bytes or fewer were; fragments of different ids
\* are never merged into a returned payload.
C4_MismatchOrShort ==
  \A s \in Sends : \A i \in 1..MaxDatagrams :
    ForeignAt(s, i) =>
      LET rx == RxOf(tasks[s[1]], s[2])
          got == Received(rx[i], FragSwitch(rx[1]))
      IN  /\ i = Len(rx)
          /\ ResultOf(s[1], s[2]) =
               IF Len(got) > 9 THEN Err("MismatchID") ELSE Err("InvalidResponse")

C4_Witness ==
  \E s \in Sends :
    /\ ForeignAt(s, 2)
    /\ ResultOf(s[1], s[2]) = Err("MismatchID")

\* the first datagram of round r of task t, as received
FirstReceived(t, r) == Received(RxOf(tasks[t], r)[1], max_size)

\* the buffers the send of round r of task t reserved
ReservedIn(t, r) ==
  {i \in 1..Len(tasks[t].reserved) : tasks[t].reserved[i].round = r}

\* C5: a first datagram with the multi-packet header that declares a total
\* above 32 or a switch size above max_size makes send return an error
\* before it receives another datagram or reserves a reassembly buffer.
C5_OversizeRejected ==
  \A t \in DOMAIN tasks : \A r \in {1, 2} :
    RxOf(tasks[t], r) # <<>> =>
      LET d == FirstReceived(t, r)
      IN  (/\ Len(d) >= 4
           /\ SubSeq(d, 1, 4) = HdrMulti
           /\ \/ Len(d) >= 9 /\ d[9] > 32
              \/ Len(d) >= 12 /\ d[11] + 256 * d[12] > max_size)
          => /\ r <= Len(tasks[t].sendRes)
             /\ tasks[t].sendRes[r].kind = "Err"
             /\ Len(RxOf(tasks[t], r)) = 1
             /\ ReservedIn(t, r) = {}

\* C6: whatever the first datagram is, send returns a payload or a typed
\* error; it never aborts on a read outside the datagram.
C6_FirstDatagramNeverAborts ==
  \A s \in Sends :
    Len(RxOf(tasks[s[1]], s[2])) = 1 => ResultOf(s[1], s[2]).kind \in {"Ok", "Err"}

\* C7: a first datagram of at least 4 bytes whose header is -1 makes send
\* return exactly the bytes after the 4-byte header, as many as were
\* received and no more, and send receives no other datagram.
C7_SinglePacketPayload ==
  \A s \in Sends :
    LET rx == RxOf(tasks[s[1]], s[2])
    IN  rx # <<>> =>
          LET d == FirstReceived(s[1], s[2])
          IN  (Len(d) >= 4 /\ SubSeq(d, 1, 4) = HdrSingle) =>
                /\ ResultOf(s[1], s[2]) = Ok(SubSeq(d, 5, Len(d)))
                /\ Len(rx) = 1

C7_Witness ==
  \E s \in Sends :
    LET rx == RxOf(tasks[s[1]], s[2])
    IN  /\ rx # <<>>
        /\ Len(rx[1]) > max_size
        /\ SubSeq(rx[1], 1, 4) = HdrSingle
        /\ ResultOf(s[1], s[2]).kind = "Ok"
        /\ Len(ResultOf(s[1], s[2]).payload) = max_size - 4

ChallengeTasks == {t \in DOMAIN tasks : tasks[t].op \in {"players", "rules"}}

\* C8: in a challenge exchange the first query is the base header followed
\* by FF FF FF FF; the second is the base header followed by bytes 1..4 of
\* the first response payload and is transmitted only after that response
\* was received; the value returned is the second response's payload.
C8_ChallengeExchange ==
  \A t \in ChallengeTasks :
    LET qs == SentBy(t)
        tk == tasks[t]
    IN  /\ Len(qs) <= 2
        /\ Len(qs) >= 1 => qs[1] = BaseHeader(tk.op) \o <<255, 255, 255, 255>>
        /\ Len(qs) = 2 =>
             /\ Len(tk.sendRes) >= 1
             /\ tk.sendRes[1].kind = "Ok"
             /\ Len(tk.sendRes[1].payload) >= 5
             /\ qs[2] = BaseHeader(tk.op) \o SubSeq(tk.sendRes[1].payload, 2, 5)
        /\ (tk.pc = "done" /\ Len(tk.sendRes) = 2) =>
             /\ tk.exchange.kind = tk.sendRes[2].kind
             /\ tk.exchange.err = tk.sendRes[2].err
             /\ tk.exchange.payload = tk.sendRes[2].payload
             /\ LET d == FirstReceived(t, 2)
                IN  (RxOf(tk, 2) # <<>> /\ Len(d) >= 4 /\ SubSeq(d, 1, 4) = HdrSingle)
                      => tk.exchange = Ok(SubSeq(d, 5, Len(d)))

C8_Witness ==
  \E t \in ChallengeTasks :
    /\ tasks[t].pc = "done"
    /\ Len(SentBy(t)) = 2
    /\ SentBy(t)[2] = BaseHeader(tasks[t].op) \o ChallengeToken
    /\ tasks[t].exchange.kind = "Ok"
    /\ tasks[t].exchange.payload # <<>>

\* the first response of the exchange of task t arrived and does not begin
\* with 'A'
NoMarker(t) ==
  /\ Len(tasks[t].sendRes) >= 1
  /\ tasks[t].sendRes[1].kind = "Ok"
  /\ \/ tasks[t].sendRes[1].payload = <<>>
     \/ tasks[t].sendRes[1].payload[1] # 65

\* C9 as stated: if the first response payload of a challenge exchange does
\* not begin with 'A', the exchange returns InvalidResponse and the second
\* query is never transmitted.
C9_NoMarkerInvalidResponse ==
  \A t \in ChallengeTasks :
    NoMarker(t) =>
      /\ tasks[t].pc = "done"
      /\ tasks[t].exchange = Err("InvalidResponse")
      /\ Len(SentBy(t)) = 1

\* C9 amended: if the first response payload begins with a byte other than
\* 'A' the exchange returns InvalidResponse; if it is empty the exchange
\* returns the I/O error of the failed read (unexpected end of buffer); in
\* both cases the second query is never transmitted.
C9_NoMarkerRejected ==
  \A t \in ChallengeTasks :
    NoMarker(t) =>
      /\ tasks[t].pc = "done"
      /\ tasks[t].exchange =
           IF tasks[t].sendRes[1].payload = <<>>
             THEN Err("Io(UnexpectedEof)") ELSE Err("InvalidResponse")
      /\ Len(SentBy(t)) = 1

C9_Witness ==
  \E t \in ChallengeTasks :
    /\ NoMarker(t)
    /\ tasks[t].sendRes[1].payload # <<>>
    /\ tasks[t].exchange = Err("InvalidResponse")
    /\ Len(SentBy(t)) = 1

\* rx is an intact compressed response: n = total fragments of one id with
\* the high bit set, ordinals 0..n-1 each once, every datagram received
\* whole and long enough for the fields and payload offset read from it
IntactCompressed(rx) ==
  /\ Len(rx) >= 2
  /\ Len(rx) <= MaxTotalPackets
  /\ \A i \in 1..Len(rx) :
       /\ IsFragment(rx[i])
       /\ FragCompressed(rx[i])
       /\ FragId(rx[i]) = FragId(rx[1])
       /\ FragTotal(rx[i]) = Len(rx)
       /\ FragSwitch(rx[i]) <= max_size
       /\ Len(rx[i]) <= FragSwitch(rx[1])
       /\ Len(rx[i]) <= max_size
       /\ Len(rx[i]) >= 20
  /\ \A k \in 0..(Len(rx) - 1) : \E i \in 1..Len(rx) : FragNumber(rx[i]) = k

\* the decompressed size fragment d declares (bytes 12..15) is above 2^20
DeclaresOver1MiB(d) ==
  \/ d[16] > 0
  \/ d[15] > 16
  \/ d[15] = 16 /\ (d[14] > 0 \/ d[13] > 0)

\* C10: for a compressed multi-packet response whose declared decompressed
\* size is above 1 MiB send returns InvalidBz2Size, reserves no buffer of
\* the declared size and starts no decompression.
C10_OversizeBz2Rejected ==
  \A s \in Sends :
    LET rx == RxOf(tasks[s[1]], s[2])
    IN  (IntactCompressed(rx) /\ DeclaresOver1MiB(FragmentNo(rx, 0))) =>
          /\ ResultOf(s[1], s[2]) = Err("InvalidBz2Size")
          /\ s[2] \notin tasks[s[1]].bz
          /\ \A i \in ReservedIn(s[1], s[2]) :
               tasks[s[1]].reserved[i].what # "decompressed"

\* C11: for a compressed multi-packet response send returns a payload only
\* if the checksum of the decompressed bytes equals the checksum declared in
\* the response header (fragment 0), and then the payload has the declared
\* decompressed length; otherwise it returns an error.
C11_OnlyVerifiedPayload ==
  \A s \in Sends :
    LET rx == RxOf(tasks[s[1]], s[2])
        res == ResultOf(s[1], s[2])
    IN  IntactCompressed(rx) =>
          /\ res.kind \in {"Ok", "Err"}
          /\ res.kind = "Ok" =>
               /\ Checksum(res.payload) = U32(FragmentNo(rx, 0), OFS_MP_SS_BZ2_CRC)
               /\ U32(FragmentNo(rx, 0), OFS_MP_SS_BZ2_SIZE) = [hi |-> 0, lo |-> Len(res.payload)]

\* a value was encoded, stripped of the header and decoded again
RoundTrip(op) == codec.stage = "decoded" /\ codec.src = "value" /\ codec.op = op

\* a payload was decoded by the decoder of op
DecodedPayload(op) == codec.stage = "decoded" /\ codec.src = "payload" /\ codec.op = op

\* C12: Rule::from_cursor applied to the bytes of Rule::vec_to_bytes, without
\* the 4-byte header, returns the same name/value pairs in the same order.
C12_RulesRoundTrip ==
  RoundTrip("rules") => codec.out = Decoded(codec.value)

\* the optional parts of the Info record v are present exactly as its edf
\* and its app_id say
Regular(v) ==
  /\ IsSome(v, "port") <=> HasFlag(v.edf, 128)
  /\ IsSome(v, "steam_id") <=> HasFlag(v.edf, 16)
  /\ IsSome(v, "keywords") <=> HasFlag(v.edf, 32)
  /\ IsSome(v, "game_id") <=> HasFlag(v.edf, 1)
  /\ IsSome(v, "source_tv_port") <=> HasFlag(v.edf, 64)
  /\ IsSome(v, "source_tv_name") <=> HasFlag(v.edf, 64)
  /\ IsSome(v, "mode") <=> v.app_id = TheShipAppId

\* C13: for an Info record whose optional fields are present exactly when
\* the bit of edf is set, and the_ship exactly when app_id = 2400,
\* Info::from_cursor applied to the bytes of Info::to_bytes, without the
\* 4-byte header, returns the record, field for field.
C13_InfoRoundTrip ==
  (RoundTrip("info") /\ Regular(codec.value)) => codec.out = Decoded(codec.value)

C13_Witness ==
  /\ RoundTrip("info")
  /\ codec.value.edf = 241
  /\ codec.value.app_id = TheShipAppId
  /\ IsSome(codec.out.value, "source_tv_name")
  /\ IsSome(codec.out.value, "keywords")
  /\ codec.out = Decoded(codec.value)

\* the places of an info payload p, as offsets: the terminators of the
\* four strings, the app id, the version and its terminator
InfoLayout(p) ==
  LET z1 == ZeroFrom(p, 2)
      z2 == ZeroFrom(p, z1 + 1)
      z3 == ZeroFrom(p, z2 + 1)
      z4 == ZeroFrom(p, z3 + 1)
      fixed == z4 + 1
      ship == IF InBounds(p, fixed, 2) /\ U16(p, fixed) = TheShipAppId THEN 3 ELSE 0
  IN  [z1 |-> z1, z2 |-> z2, z3 |-> z3, z4 |-> z4, fixed |-> fixed,
       type |-> fixed + 5, os |-> fixed + 6, version |-> fixed + 9 + ship,
       zv |-> ZeroFrom(p, fixed + 9 + ship)]

Ascii(p) == \A i \in 1..Len(p) : p[i] < 128

\* p is an info payload complete up to the end of its version string
InfoUpToVersion(p) ==
  /\ Len(p) >= 2
  /\ p[1] = 73
  /\ Ascii(p)
  /\ InfoLayout(p).z4 < Len(p)
  /\ InfoLayout(p).version <= Len(p)
  /\ At(p, InfoLayout(p).type) \in {100, 105, 112}
  /\ At(p, InfoLayout(p).os) \in {108, 119, 109, 111}
  /\ InfoLayout(p).zv < Len(p)

\* p ends right after the version string
EndsAfterVersion(p) == Len(p) = InfoLayout(p).zv + 1

\* p ends with a flags byte 0 after the version string
EndsWithZeroFlags(p) ==
  Len(p) = InfoLayout(p).zv + 2 /\ At(p, InfoLayout(p).zv + 1) = 0

ExtendedFields ==
  {"port", "steam_id", "keywords", "game_id", "source_tv_port", "source_tv_name"}

\* C14: a well-formed info payload that ends right after the version string,
\* or whose flags byte is 0, decodes to a record with edf = 0, the four
\* strings name, map, folder, game as on the wire, and none of port,
\* steam_id, keywords, game_id, source_tv.
C14_NoFlagsNoExtendedInfo ==
  LET p == codec.bytes
      l == InfoLayout(p)
  IN  (/\ DecodedPayload("info")
       /\ InfoUpToVersion(p)
       /\ EndsAfterVersion(p) \/ EndsWithZeroFlags(p))
      => /\ codec.out.kind = "Ok"
         /\ codec.out.value.edf = 0
         /\ codec.out.value.name = SubSeq(p, 3, l.z1)
         /\ codec.out.value.map = SubSeq(p, l.z1 + 2, l.z2)
         /\ codec.out.value.folder = SubSeq(p, l.z2 + 2, l.z3)
         /\ codec.out.value.game = SubSeq(p, l.z3 + 2, l.z4)
         /\ \A f \in ExtendedFields : ~IsSome(codec.out.value, f)

C14_Witness ==
  /\ DecodedPayload("info")
  /\ InfoUpToVersion(codec.bytes)
  /\ EndsAfterVersion(codec.bytes)
  /\ codec.out.kind = "Ok"
  /\ codec.out.value.edf = 0
  /\ codec.out.value.game = <<100>>

\* the payload decoded is a proper prefix of a complete payload of the
\* decoder: it ends before or inside a field that is not Info's flags byte
Truncated ==
  /\ codec.stage = "decoded"
  /\ codec.src = "payload"
  /\ Len(codec.bytes) < Len(codec.full)
  /\ codec.bytes = SubSeq(codec.full, 1, Len(codec.bytes))
  /\ codec.op = "players" => app_id = DefaultAppId

\* C15: a payload that ends before or in the middle of a field (other than
\* Info's trailing flags byte) makes the decoder return an error; no record
\* is returned with the missing field empty, partial or zero.
C15_TruncationIsError ==
  Truncated => codec.out.kind = "Err"

\* the payload decoded is the protocol's layout of the rules in codec.value:
\* 0x45, the count in 16 bits, the NUL-terminated pairs
WireRulesDecoded ==
  /\ DecodedPayload("rules")
  /\ codec.bytes = WireRules(codec.value)
  /\ codec.bytes = codec.full

\* C16: a rules payload made of 0x45, a 16-bit count n and n NUL-terminated
\* name/value pairs decodes to exactly these n pairs in wire order; count 2
\* with (sv_gravity, 800), (mp_timelimit, 30) gives these two pairs.
C16_RulesDecoded ==
  WireRulesDecoded => codec.out = Decoded(codec.value)

C16_Witness ==
  /\ WireRulesDecoded
  /\ codec.value = <<SvGravity, MpTimelimit>>
  /\ codec.out = Decoded(<<SvGravity, MpTimelimit>>)

\* the info payload decoded has a server-type byte, and it is none of
\* 'd', 'i', 'p'
BadServerType ==
  /\ DecodedPayload("info")
  /\ Len(codec.bytes) >= 2
  /\ codec.bytes[1] = 73
  /\ InfoLayout(codec.bytes).z4 < Len(codec.bytes)
  /\ InBounds(codec.bytes, InfoLayout(codec.bytes).type, 1)
  /\ At(codec.bytes, InfoLayout(codec.bytes).type) \notin {100, 105, 112}

\* the info payload decoded has an OS byte, and it is none of 'l', 'w',
\* 'm', 'o'
BadServerOS ==
  /\ DecodedPayload("info")
  /\ Len(codec.bytes) >= 2
  /\ codec.bytes[1] = 73
  /\ InfoLayout(codec.bytes).z4 < Len(codec.bytes)
  /\ InBounds(codec.bytes, InfoLayout(codec.bytes).os, 1)
  /\ At(codec.bytes, InfoLayout(codec.bytes).os) \notin {108, 119, 109, 111}

\* C17: Info decoding fails with an error, and yields no default value, when
\* the server-type byte is outside {'d','i','p'} or the OS byte is outside
\* {'l','w','m','o'}.
C17_BadTypeOrOSRejected ==
  (BadServerType \/ BadServerOS) => codec.out.kind = "Err"

C17_Witness ==
  /\ BadServerType
  /\ ~BadServerOS
  /\ At(codec.bytes, InfoLayout(codec.bytes).type) = 120
  /\ codec.out = DecodeErr("Other(Invalid server type)")

\* the leading byte of the response to each query
Discriminant(op) ==
  CASE op = "info" -> 73 [] op = "players" -> 68 [] op = "rules" -> 69

\* the payload decoded begins with a byte that is not the discriminant of
\* the decoder
ForeignPayload ==
  /\ codec.stage = "decoded"
  /\ codec.bytes # <<>>
  /\ codec.bytes[1] # Discriminant(codec.op)

\* C19: each decoder rejects with InvalidResponse a payload whose leading
\* byte is not its discriminant (Info 0x49, Players 0x44, Rules 0x45).
C19_ForeignPayloadRejected ==
  ForeignPayload => codec.out = DecodeErr("InvalidResponse")

C19_Witness ==
  /\ ForeignPayload
  /\ codec.op = "players"
  /\ codec.bytes[1] = Discriminant("rules")
  /\ codec.out = DecodeErr("InvalidResponse")

\* C20: in every state of a reassembly the number of fragments held is at
\* most the declared total, and so at most 32, whatever the declared total
\* (0 and 1 included) and whatever datagrams arrive.
C20_FragmentsWithinTotal ==
  \A t \in DOMAIN tasks :
    tasks[t].pc = "loop" =>
      /\ Len(tasks[t].st.packets) <= tasks[t].st.total
      /\ Len(tasks[t].st.packets) <= MaxTotalPackets

\* C18: with queries outstanding to several servers, a query addressed to
\* server D never returns a result built from a datagram another server
\* sent: every datagram a query takes comes from the server it addressed.
C18_DatagramsFromAddressedServer ==
  \A t \in DOMAIN tasks :
    \A i \in 1..Len(tasks[t].rx) : tasks[t].rx[i].sender = tasks[t].addr

\* the send s went through the loop to its end: it built the aggregation
LoopCompleted(s) ==
  \E i \in ReservedIn(s[1], s[2]) : tasks[s[1]].reserved[i].what = "aggregation"

\* the ordinals of the fragments the send s collected, in the order collected
OrdinalsOf(s) ==
  LET rx == RxOf(tasks[s[1]], s[2])
  IN  [i \in 1..Len(rx) |-> FragNumber(rx[i])]

\* C21: whenever the reassembly loop completes, the fragments collected have
\* pairwise distinct ordinals that cover 0..total-1: a duplicated datagram is
\* not counted as a new fragment and does not appear twice in the payload.
C21_DistinctOrdinalsAtCompletion ==
  \A s \in Sends :
    LoopCompleted(s) =>
      LET ns == OrdinalsOf(s)
          total == FragTotal(RxOf(tasks[s[1]], s[2])[1])
      IN  /\ \A i, j \in 1..Len(ns) : ns[i] = ns[j] => i = j
          /\ {ns[i] : i \in 1..Len(ns)} = 0..(total - 1)

\* C22: the 4-byte legacy prefix is removed from the payload of the fragment
\* of ordinal 0 and from no other: a first datagram of another ordinal keeps
\* all its payload bytes, and the ordinal-0 fragment loses its prefix also
\* when it is received later.
C22_PrefixStrippedFromOrdinalZeroOnly ==
  \A t \in DOMAIN tasks :
    tasks[t].pc = "loop" =>
      LET rx == RxOf(tasks[t], tasks[t].round)
          held == tasks[t].st.packets
      IN  \A i \in 1..Len(held) :
            (/\ IsFragment(rx[i])
             /\ ~FragCompressed(rx[i])
             /\ Len(rx[i]) <= FragSwitch(rx[1])
             /\ Len(rx[i]) <= max_size
             /\ FragNumber(rx[i]) = 0 => Len(rx[i]) >= 16)
            => /\ held[i].number = FragNumber(rx[i])
               /\ held[i].payload = FragPayload(rx[i])

\* the bytes a datagram of the loop must have for the fields and the payload
\* offset parsed from it
LoopNeeds(first) == IF FragCompressed(first) THEN 20 ELSE 12

\* C23: a datagram received after the first that is too short for the
\* fields and payload offset parsed from it (under 12 bytes uncompressed,
\* under 20 when the id's high bit is set) ends the send with an error,
\* never with a read outside the datagram.
C23_ShortLoopDatagramRejected ==
  \A s \in Sends :
    LET rx == RxOf(tasks[s[1]], s[2])
    IN  \A i \in 2..Len(rx) :
          Len(Received(rx[i], FragSwitch(rx[1]))) < LoopNeeds(rx[1]) =>
            /\ i = Len(rx)
            /\ ResultOf(s[1], s[2]).kind = "Err"

(***************************************************************************)
(* Two calls made one after the other on one client, against a server      *)
(* that answers every query correctly but may answer late, after the       *)
(* read timeout of the call has passed.                                    *)
(***************************************************************************)
\* a call transmits only when every earlier call has returned
TransmitSeq(t) ==
  /\ \A u \in DOMAIN tasks : u < t => tasks[u].pc = "done"
  /\ Transmit(t)

InitSeq ==
  /\ max_size = DefaultMaxSize
  /\ app_id = DefaultAppId
  /\ codec = NoCodec
  /\ socket = <<>>
  /\ sent = <<>>
  /\ delivered = 0
  /\ served = 0
  /\ \E op1, op2 \in Ops : tasks = <<NewTask(op1), NewTask(op2)>>

NextSeq ==
  \/ \E t \in DOMAIN tasks : TransmitSeq(t)
  \/ \E t \in DOMAIN tasks : RecvFirst(t)
  \/ \E t \in DOMAIN tasks : RecvNext(t)
  \/ \E t \in DOMAIN tasks : Timeout(t)
  \/ ServerReply

SpecSeq == InitSeq /\ [][NextSeq]_vars

\* at most one call is outstanding
OneOutstanding ==
  \A t, u \in DOMAIN tasks :
    (tasks[t].pc \in {"recv", "loop"} /\ tasks[u].pc \in {"recv", "loop"}) => t = u

\* C24: under strictly sequential use of one client the result of a call is
\* built only from datagrams sent in reply to that call's own queries: a
\* datagram that reaches the socket after an earlier call timed out or
\* failed is never consumed by a later call.
C24_NoStaleDatagramConsumed ==
  OneOutstanding =>
    \A t \in DOMAIN tasks :
      \A i \in 1..Len(tasks[t].rx) : tasks[t].rx[i].replyTo = t

\* the sends task t has started: those that returned and the one in progress
SendsStarted(t) ==
  Len(tasks[t].sendRes) + (IF tasks[t].pc \in {"recv", "loop"} THEN 1 ELSE 0)

\* C25: no query is retransmitted: every send transmits its query exactly
\* once, a call transmits at most two queries, and after a timeout or any
\* other error of a send the call returns that error without transmitting
\* again.
C25_NoRetransmission ==
  \A t \in DOMAIN tasks :
    /\ Len(SentBy(t)) = SendsStarted(t)
    /\ Len(SentBy(t)) <= 2
    /\ \A r \in 1..Len(tasks[t].sendRes) :
         tasks[t].sendRes[r].kind # "Ok" =>
           /\ tasks[t].pc = "done"
           /\ Len(SentBy(t)) = r
           /\ tasks[t].exchange = tasks[t].sendRes[r]

C25_Witness ==
  \E t \in DOMAIN tasks :
    /\ Len(tasks[t].sendRes) = 2
    /\ tasks[t].sendRes[2] = Err("Io(TimedOut)")
    /\ tasks[t].exchange = Err("Io(TimedOut)")
    /\ Len(SentBy(t)) = 2

InfoTasks == {t \in DOMAIN tasks : tasks[t].op = "info"}

\* the first send of task t returned the payload p
FirstResponse(t, p) ==
  /\ Len(tasks[t].sendRes) >= 1
  /\ tasks[t].sendRes[1] = Ok(p)

\* task t goes on to the second round trip with the token of p: the second
\* query is INFO_REQUEST followed by bytes 1..4 of p, and the result of the
\* call is the decoding of the second response
SecondRoundTrip(t, p) ==
  LET tk == tasks[t]
      q2 == INFO_REQUEST \o SubSeq(p, 2, 5)
  IN  /\ tk.round = 2
      /\ tk.query = q2
      /\ IF tk.pc = "call" THEN Len(SentBy(t)) = 1
         ELSE Len(SentBy(t)) = 2 /\ SentBy(t)[2] = q2
      /\ (tk.pc = "done" /\ tk.sendRes[2].kind = "Ok") =>
           tk.result = Decode("info", tk.sendRes[2].payload, app_id)

\* task t returns the decoding of the first response p and transmits nothing
\* more
DecodesFirst(t, p) ==
  /\ tasks[t].pc = "done"
  /\ Len(SentBy(t)) = 1
  /\ tasks[t].result = Decode("info", p, app_id)

\* the second response of task t is again a challenge
ChallengedTwice(t) ==
  /\ Len(tasks[t].sendRes) = 2
  /\ tasks[t].sendRes[2].kind = "Ok"
  /\ tasks[t].sendRes[2].payload # <<>>
  /\ tasks[t].sendRes[2].payload[1] = ChallengeMarker

\* C26 as stated: info first transmits INFO_REQUEST without a token; if and
\* only if the first response payload begins with 'A' it transmits
\* INFO_REQUEST followed by the token of that response and decodes the second
\* response, otherwise it decodes the first; never more than two round trips,
\* a second challenge yields InvalidResponse.
C26_InfoFlowAsStated ==
  \A t \in InfoTasks :
    /\ Len(SentBy(t)) <= 2
    /\ Len(SentBy(t)) >= 1 => SentBy(t)[1] = INFO_REQUEST
    /\ \A p \in {tasks[t].sendRes[r].payload : r \in 1..Len(tasks[t].sendRes)} :
         FirstResponse(t, p) =>
           IF p # <<>> /\ p[1] = ChallengeMarker
             THEN SecondRoundTrip(t, p) ELSE DecodesFirst(t, p)
    /\ ChallengedTwice(t) =>
         tasks[t].pc = "done" /\ tasks[t].result = DecodeErr("InvalidResponse")

\* C26 amended: as stated, for a first response that begins with 'A' and
\* carries the 4 token bytes; a first response that begins with 'A' and is
\* shorter than 5 bytes makes info return the I/O error of the failed read
\* of the token, and no second query is transmitted.
C26_InfoFlow ==
  \A t \in InfoTasks :
    /\ Len(SentBy(t)) <= 2
    /\ Len(SentBy(t)) >= 1 => SentBy(t)[1] = INFO_REQUEST
    /\ \A p \in {tasks[t].sendRes[r].payload : r \in 1..Len(tasks[t].sendRes)} :
         FirstResponse(t, p) =>
           IF p # <<>> /\ p[1] = ChallengeMarker
             THEN IF Len(p) >= 5 THEN SecondRoundTrip(t, p)
                  ELSE /\ tasks[t].pc = "done"
                       /\ Len(SentBy(t)) = 1
                       /\ tasks[t].result = DecodeErr("Io(UnexpectedEof)")
             ELSE DecodesFirst(t, p)
    /\ ChallengedTwice(t) =>
         tasks[t].pc = "done" /\ tasks[t].result = DecodeErr("InvalidResponse")

C26_Witness ==
  \E t \in InfoTasks :
    /\ FirstResponse(t, <<ChallengeMarker>> \o ChallengeToken)
    /\ SentBy(t) = <<INFO_REQUEST, INFO_REQUEST \o ChallengeToken>>
    /\ ChallengedTwice(t)
    /\ tasks[t].result = DecodeErr("InvalidResponse")

\* the compressed payload bytes fragment d carries: after the 12-byte
\* envelope, and in fragment 0 after the decompressed size and the CRC-32
FragCompressedPayload(d) ==
  IF FragNumber(d) = 0 THEN SubSeq(d, 21, Len(d)) ELSE SubSeq(d, 13, Len(d))

\* C27: for a compressed multi-packet response the bytes handed to the
\* decompressor are the fragments' compressed payload bytes: the
\* decompressed-size and CRC-32 fields of fragment 0 are not among them and
\* no payload byte of a later fragment is dropped.
C27_CompressedStreamBytes ==
  \A t \in DOMAIN tasks :
    tasks[t].pc = "loop" =>
      LET rx == RxOf(tasks[t], tasks[t].round)
          held == tasks[t].st.packets
      IN  \A i \in 1..Len(held) :
            (/\ IsFragment(rx[i])
             /\ FragCompressed(rx[i])
             /\ Len(rx[i]) <= FragSwitch(rx[1])
             /\ Len(rx[i]) <= max_size
             /\ Len(rx[i]) >= 20)
            => held[i].payload = FragCompressedPayload(rx[i])

\* an info payload was decoded to a record
InfoDecoded ==
  /\ codec.stage = "decoded"
  /\ codec.op = "info"
  /\ codec.out.kind = "Ok"

\* the places of the optional fields of an info payload p, as offsets, when
\* they follow the flags byte in the order port, steam_id, keywords,
\* game_id, source_tv and a field whose bit is clear takes no byte
ExtendedLayout(p) ==
  LET at == InfoLayout(p).zv + 1
      edf == IF InBounds(p, at, 1) THEN At(p, at) ELSE 0
      steam == at + 1 + (IF HasFlag(edf, 128) THEN 2 ELSE 0)
      keywords == steam + (IF HasFlag(edf, 16) THEN 8 ELSE 0)
      game == IF HasFlag(edf, 32) THEN Min(ZeroFrom(p, keywords) + 1, Len(p))
              ELSE keywords
      tv == game + (IF HasFlag(edf, 1) THEN 8 ELSE 0)
  IN  [edf |-> edf, port |-> at + 1, steam_id |-> steam, keywords |-> keywords,
       game_id |-> game, source_tv |-> tv]

\* the string of p that starts at offset from
TextAt(p, from) == Utf8Lossy(SubSeq(p, from + 1, ZeroFrom(p, from)), 1)

\* C28: in a record decoded by Info::from_cursor each optional field is
\* present exactly when its bit of edf is set (port 0x80, steam_id 0x10,
\* keywords 0x20, game_id 0x01, source_tv 0x40); the fields are read from
\* the buffer in this order, and a field whose bit is clear takes no byte
\* and is not present.
C28_OptionalFieldsFollowFlags ==
  InfoDecoded =>
    LET p == codec.bytes
        v == codec.out.value
        l == ExtendedLayout(p)
    IN  /\ v.edf = l.edf
        /\ IsSome(v, "port") <=> HasFlag(v.edf, 128)
        /\ IsSome(v, "steam_id") <=> HasFlag(v.edf, 16)
        /\ IsSome(v, "keywords") <=> HasFlag(v.edf, 32)
        /\ IsSome(v, "game_id") <=> HasFlag(v.edf, 1)
        /\ IsSome(v, "source_tv_port") <=> HasFlag(v.edf, 64)
        /\ IsSome(v, "source_tv_name") <=> HasFlag(v.edf, 64)
        /\ HasFlag(v.edf, 128) => v.port = U16(p, l.port)
        /\ HasFlag(v.edf, 16) => v.steam_id = U64(p, l.steam_id)
        /\ HasFlag(v.edf, 32) => v.keywords = TextAt(p, l.keywords)
        /\ HasFlag(v.edf, 1) => v.game_id = U64(p, l.game_id)
        /\ HasFlag(v.edf, 64) =>
             /\ v.source_tv_port = U16(p, l.source_tv)
             /\ v.source_tv_name = TextAt(p, l.source_tv + 2)

C28_Witness ==
  /\ InfoDecoded
  /\ codec.out.value.edf = 96
  /\ ~IsSome(codec.out.value, "port")
  /\ ~IsSome(codec.out.value, "game_id")
  /\ codec.out.value.keywords = StrAccent
  /\ codec.out.value.source_tv_port = 27020
  /\ codec.out.value.source_tv_name = <<116, 118>>

\* the offset of the application id in an info payload p: after the
\* protocol byte and the four strings
AppIdOffset(p) ==
  ZeroFrom(p, ZeroFrom(p, ZeroFrom(p, ZeroFrom(p, 2) + 1) + 1) + 1) + 1

TheShipFields == {"mode", "witnesses", "duration"}

\* C29: a decoded Info record has the_ship exactly when the application id
\* carried in the response is 2400, whatever application id the client is
\* configured with; for any other id no byte is taken for the block, the
\* version string follows the vac byte.
C29_TheShipFollowsResponseAppId ==
  InfoDecoded =>
    LET p == codec.bytes
        v == codec.out.value
        at == AppIdOffset(p)
        id == U16(p, at)
    IN  /\ v.app_id = id
        /\ \A f \in TheShipFields : IsSome(v, f) <=> id = 2400
        /\ id = 2400 =>
             /\ v.mode = TheShipModeOf(p, at + 9)
             /\ v.witnesses = At(p, at + 10)
             /\ v.duration = At(p, at + 11)
             /\ v.version = TextAt(p, at + 12)
        /\ id # 2400 => v.version = TextAt(p, at + 9)

C29_Witness ==
  /\ InfoDecoded
  /\ app_id = DefaultAppId
  /\ codec.bytes = InfoShipMin
  /\ codec.out.value.app_id = 2400
  /\ codec.out.value.witnesses = 2
  /\ codec.out.value.duration = 3
  /\ codec.out.value.version = <<49>>

(***************************************************************************)
(* The blocking and the async build side by side: two clients, one of each *)
(* build, make the same call and meet the same socket events.              *)
(***************************************************************************)
InitPair ==
  /\ max_size = DefaultMaxSize
  /\ app_id = DefaultAppId
  /\ codec = NoCodec
  /\ socket = <<>>
  /\ sent = <<>>
  /\ delivered = 0
  /\ served = 0
  /\ \E op \in Ops : tasks = <<NewTask(op), NewAsyncTask(op)>>

\* the step of send of call tk on the datagram d
SendStep(tk, d) ==
  IF tk.pc = "recv" THEN FirstDatagram(d.bytes, max_size)
  ELSE LoopDatagram(tk.st, d.bytes, max_size)

\* both calls transmit their query
TransmitBoth ==
  /\ \A t \in DOMAIN tasks : tasks[t].pc = "call"
  /\ sent' = sent \o [t \in DOMAIN tasks |->
                        [from |-> t, to |-> tasks[t].addr, bytes |-> tasks[t].query]]
  /\ tasks' = [t \in DOMAIN tasks |-> [tasks[t] EXCEPT !.pc = "recv"]]
  /\ UNCHANGED <<codec, max_size, app_id, socket, delivered, served>>

\* the recv of both calls returns the datagram d
RecvBoth(d) ==
  /\ delivered < MaxDatagrams
  /\ \A t \in DOMAIN tasks : tasks[t].pc \in {"recv", "loop"}
  /\ tasks' = [t \in DOMAIN tasks |->
                 ApplyStep(tasks[t], d, SendStep(tasks[t], d))]
  /\ delivered' = delivered + 1
  /\ UNCHANGED <<codec, max_size, app_id, socket, sent, served>>

\* the recv of both calls gets no datagram within the timeout
TimeoutBoth ==
  /\ \A t \in DOMAIN tasks : tasks[t].pc \in {"recv", "loop"}
  /\ tasks' = [t \in DOMAIN tasks |->
                 AfterSend(tasks[t], TimeoutError(tasks[t].variant))]
  /\ UNCHANGED <<codec, max_size, app_id, socket, sent, delivered, served>>

NextPair ==
  \/ TransmitBoth
  \/ \E d \in Datagrams :
       RecvBoth([bytes |-> d, replyTo |-> 0, sender |-> AnyServer])
  \/ TimeoutBoth

SpecPair == InitPair /\ [][NextPair]_vars

\* C30: given the same query and the same socket events (datagrams,
\* timeouts) the blocking and the async variant of send, of the challenge
\* exchange and of info return the same outcome: the same payload or an
\* error of the same kind, timeouts included.
C30_SyncAsyncSameOutcome ==
  \A t, u \in DOMAIN tasks :
    /\ tasks[t].pc = tasks[u].pc
    /\ tasks[t].sendRes = tasks[u].sendRes
    /\ tasks[t].exchange = tasks[u].exchange
    /\ tasks[t].result = tasks[u].result

\* C31: every send returns once each recv has delivered a datagram or timed
\* out: the reassembly loop ends after receiving at most the declared total
\* number of datagrams, also for a declared total of 0 or 1 and against a
\* server that keeps sending fragments of the matching id; a send that still
\* waits in the loop has received fewer datagrams than the declared total.
C31_LoopEndsWithinTotal ==
  \A t \in DOMAIN tasks :
    tasks[t].pc = "loop" =>
      Len(RxOf(tasks[t], tasks[t].round)) < tasks[t].st.total

====
